---- MODULE Spec2Model ----
(***************************************************************************)
(* Demo-mode interception engine of the Hytale server manager backend.     *)
(*                                                                         *)
(*   manager/backend/src/middleware/demo.ts   route -> action resolver,    *)
(*                                            identity resolver, middleware*)
(*   manager/backend/src/services/demo.ts     demo policy, simulated       *)
(*                                            response                     *)
(*                                                                         *)
(* Representation.  A request path "/a/b" is the sequence of its segments  *)
(* <<"a", "b">> (the text between the separators, so "/a//b" is            *)
(* <<"a", "", "b">> and "/a/" is <<"a", "">>).  A header value is the      *)
(* sequence of its characters, a credential being one opaque symbol.       *)
(* JavaScript's undefined and null are the strings Undefined and Null.     *)
(***************************************************************************)
EXTENDS Naturals, Sequences, FiniteSets

VARIABLES
    enabled,            \* config.demoMode.enabled
    simulatedActions,   \* config.demoMode.simulatedActions
    rules,              \* the declared route rules (ROUTE_ACTION_MAP)
    pc,                 \* "idle" | "pending" | "done": position of the request
    req,                \* the request object handed to demoMiddleware
    req0,               \* the request as it was received
    res,                \* what demoMiddleware did: calls of next, res.json, ...
    rq,                 \* resolver query: [path, method]
    rr,                 \* resolver answer to rq
    sq,                 \* createSimulatedResponse arguments: [action, customMessage]
    sr,                 \* createSimulatedResponse results (none before the call)
    now,                \* the clock, milliseconds since the process started
    intervalHours,      \* config.demoMode.resetIntervalHours
    sessions,           \* demoSessions: the stored sessions, one per session id
    resetState,         \* resetState: [lastReset, nextReset, resetIntervalHours]
    timers,             \* the repeating timers armed with setInterval: [due, period]
    inits,              \* calls of initializeDemoReset so far
    op,                 \* the service operation that ran last
    count,              \* result of the last getActiveDemoSessionCount (NoCount if none)
    removed,            \* sessions the last operation removed from the store
    calls,              \* calls of createDemoLogin started so far
    pending,            \* session ids of the logins waiting for their access token
    outcome,            \* how the login that ended last ended (none before)
    demoStore,          \* frontend demo store: [isDemoMode, demoMessage, checked]
    checkCalls,         \* the calls of checkDemoMode(): position and response of each
    fetches,            \* requests to /api/server/demo issued so far
    files,              \* data directory: state of config.json, users.json, ...
    env,                \* process.env and the server directory, as migration reads them
    mig                 \* the last checkAndRunMigration(): what it did and returned

cfgVars == <<enabled, simulatedActions, rules>>
mwVars == <<pc, req, req0, res>>
routeVars == <<rq, rr>>
respVars == <<sq, sr>>
svcVars == <<now, intervalHours, sessions, resetState, timers, inits, op, count, removed>>

loginVars == <<calls, pending, outcome>>
feVars == <<demoStore, checkCalls, fetches>>
migVars == <<files, env, mig>>

vars == <<cfgVars, mwVars, routeVars, respVars, svcVars, loginVars, feVars, migVars>>

Undefined == "<undefined>"
Null == "<null>"

\* services/demo.ts:12
DEMO_USERNAME == "__demo__"

(***************************************************************************)
(* Route rules.  An entry of ROUTE_ACTION_MAP is a path template and its   *)
(* method map; the object keeps its keys in declaration order.             *)
(***************************************************************************)
R(path, methods) == [path |-> path, methods |-> methods]

ROUTE_ACTION_MAP == <<
    R(<<"api","server","start">>,             [POST |-> "server.start"]),
    R(<<"api","server","stop">>,              [POST |-> "server.stop"]),
    R(<<"api","server","restart">>,           [POST |-> "server.restart"]),
    R(<<"api","server","quick-settings">>,    [PUT |-> "config.edit"]),
    R(<<"api","server","config">>,            [PUT |-> "config.edit"]),
    R(<<"api","server","patchline">>,         [PUT |-> "config.edit"]),
    R(<<"api","console","command">>,          [POST |-> "console.execute"]),
    R(<<"api","players">>,                    [POST |-> "players.kick"]),
    R(<<"api","management","whitelist">>,     [POST |-> "players.whitelist", PUT |-> "players.whitelist", DELETE |-> "players.whitelist"]),
    R(<<"api","management","bans">>,          [POST |-> "players.ban", DELETE |-> "players.unban"]),
    R(<<"api","management","permissions">>,   [POST |-> "players.permissions", PUT |-> "players.permissions", DELETE |-> "players.permissions"]),
    R(<<"api","backups">>,                    [POST |-> "backups.create", DELETE |-> "backups.delete"]),
    R(<<"api","backups","restore">>,          [POST |-> "backups.restore"]),
    R(<<"api","scheduler">>,                  [POST |-> "scheduler.edit", PUT |-> "scheduler.edit", DELETE |-> "scheduler.edit"]),
    R(<<"api","scheduler","tasks">>,          [POST |-> "scheduler.edit", PUT |-> "scheduler.edit", DELETE |-> "scheduler.edit"]),
    R(<<"api","scheduler","config">>,         [PUT |-> "scheduler.edit"]),
    R(<<"api","scheduler","backup","run">>,   [POST |-> "backups.create"]),
    R(<<"api","scheduler","quick-commands">>, [POST |-> "scheduler.edit"]),
    R(<<"api","scheduler","broadcast">>,      [POST |-> "scheduler.edit"]),
    R(<<"api","scheduler","restart","cancel">>, [POST |-> "scheduler.edit"]),
    R(<<"api","assets","extract">>,           [POST |-> "assets.manage"]),
    R(<<"api","assets","cache">>,             [DELETE |-> "assets.manage"]),
    R(<<"api","server","plugin","install">>,  [POST |-> "mods.install"]),
    R(<<"api","server","plugin","uninstall">>, [DELETE |-> "mods.install"]),
    R(<<"api","management","worlds">>,        [POST |-> "worlds.manage", PUT |-> "worlds.manage", DELETE |-> "worlds.manage"]),
    R(<<"api","management","mods">>,          [POST |-> "mods.install", DELETE |-> "mods.delete"]),
    R(<<"api","management","mods","upload">>, [POST |-> "mods.install"]),
    R(<<"api","management","mods","toggle">>, [POST |-> "mods.toggle"]),
    R(<<"api","management","mods","config">>, [PUT |-> "mods.config"]),
    R(<<"api","management","plugins">>,       [POST |-> "plugins.install", DELETE |-> "plugins.delete"]),
    R(<<"api","management","plugins","upload">>, [POST |-> "plugins.install"]),
    R(<<"api","management","plugins","toggle">>, [POST |-> "plugins.toggle"]),
    R(<<"api","management","plugins","config">>, [PUT |-> "plugins.config"]),
    R(<<"api","auth","users">>,               [POST |-> "users.create", PUT |-> "users.edit", DELETE |-> "users.delete"]),
    R(<<"api","roles">>,                      [POST |-> "roles.manage", PUT |-> "roles.manage", DELETE |-> "roles.manage"]),
    R(<<"api","management","settings">>,      [PUT |-> "settings.edit"]),
    R(<<"api","auth","hytale","initiate">>,   [POST |-> "hytale_auth.manage"]),
    R(<<"api","auth","hytale","reset">>,      [POST |-> "hytale_auth.manage"]),
    R(<<"api","auth","hytale","persistence">>, [POST |-> "hytale_auth.manage"]),
    R(<<"api","chat","send">>,                [POST |-> "chat.send"]),
    R(<<"api","management","activity">>,      [DELETE |-> "activity.clear"]) >>

\* The regular-expression fragment a named parameter is rewritten to, and
\* the one the fallback predicates spell out: one or more non-separator
\* characters, i.e. exactly one non-empty segment.
Wild == "[^/]+"

\* The hard-coded predicates that follow the table loop, in program order.
F(re, method, action) == [re |-> re, method |-> method, action |-> action]

FALLBACK_PREDICATES == <<
    F(<<"api","players",Wild,"kick">>,               "POST",   "players.kick"),
    F(<<"api","players",Wild,"ban">>,                "POST",   "players.ban"),
    F(<<"api","players",Wild,"ban">>,                "DELETE", "players.unban"),
    F(<<"api","players",Wild,"teleport">>,           "POST",   "players.teleport"),
    F(<<"api","players",Wild,"teleport","death">>,   "POST",   "players.teleport"),
    F(<<"api","players",Wild,"kill">>,               "POST",   "players.kill"),
    F(<<"api","players",Wild,"heal">>,               "POST",   "players.heal"),
    F(<<"api","players",Wild,"gamemode">>,           "POST",   "players.gamemode"),
    F(<<"api","players",Wild,"give">>,               "POST",   "players.give"),
    F(<<"api","players",Wild,"effect">>,             "POST",   "players.effects"),
    F(<<"api","players",Wild,"inventory","clear">>,  "POST",   "players.clear_inventory"),
    F(<<"api","players",Wild,"message">>,            "POST",   "players.message"),
    F(<<"api","players",Wild,"whitelist">>,          "POST",   "players.whitelist"),
    F(<<"api","players",Wild,"whitelist">>,          "DELETE", "players.whitelist"),
    F(<<"api","players",Wild,"op">>,                 "POST",   "players.op"),
    F(<<"api","players",Wild,"op">>,                 "DELETE", "players.op"),
    F(<<"api","players",Wild,"respawn">>,            "POST",   "players.respawn"),
    F(<<"api","players",Wild,"deaths">>,             "POST",   "players.edit"),
    F(<<"api","auth","users",Wild>>,                 "PUT",    "users.edit"),
    F(<<"api","auth","users",Wild>>,                 "DELETE", "users.delete"),
    F(<<"api","roles",Wild>>,                        "PUT",    "roles.manage"),
    F(<<"api","roles",Wild>>,                        "DELETE", "roles.manage"),
    F(<<"api","backups",Wild>>,                      "DELETE", "backups.delete"),
    F(<<"api","backups",Wild,"restore">>,            "POST",   "backups.restore"),
    F(<<"api","scheduler","tasks",Wild>>,            "PUT",    "scheduler.edit"),
    F(<<"api","scheduler","tasks",Wild>>,            "DELETE", "scheduler.edit"),
    F(<<"api","scheduler","quick-commands",Wild>>,   "PUT",    "scheduler.edit"),
    F(<<"api","scheduler","quick-commands",Wild>>,   "DELETE", "scheduler.edit"),
    F(<<"api","scheduler","quick-commands",Wild,"execute">>, "POST", "scheduler.edit"),
    F(<<"api","management","whitelist",Wild>>,       "DELETE", "players.whitelist"),
    F(<<"api","management","bans",Wild>>,            "DELETE", "players.unban"),
    F(<<"api","management","permissions","users",Wild>>,  "DELETE", "players.permissions"),
    F(<<"api","management","permissions","groups",Wild>>, "DELETE", "players.permissions"),
    F(<<"api","server","config",Wild>>,              "PUT",    "config.edit"),
    F(<<"api","management","mods",Wild>>,            "DELETE", "mods.delete"),
    F(<<"api","management","plugins",Wild>>,         "DELETE", "plugins.delete") >>

(***************************************************************************)
(* The bounded universe of inputs.                                         *)
(***************************************************************************)
Methods == {"GET", "POST", "PUT", "DELETE", "PATCH"}

\* Values put in a parameter position of a request path: an ordinary name,
\* a name that is also a literal sub-route of the table, and the empty
\* segment (as in "/api/players//kick").
Names == {"alice", "upload", "kick", ""}

\* Template segments that start with ':' and have at least one more
\* character, the segments /:[^/]+/ matches.
ParamSegments == {":res", ":id"}

Range(s) == {s[i] : i \in DOMAIN s}

Fill(re, n) == [k \in DOMAIN re |-> IF re[k] = Wild THEN n ELSE re[k]]

LiteralPaths == {e.path : e \in Range(ROUTE_ACTION_MAP)}

FallbackPaths == {Fill(f.re, n) : f \in Range(FALLBACK_PREDICATES), n \in Names}

OddPaths == {
    <<"">>,                                        \* "/"
    <<"api">>,
    <<"api","unknown">>,
    <<"api","players","alice">>,
    <<"api","players","alice","bob","kick">>,      \* parameter spans two segments
    <<"api","players","alice","bob","ban">>,
    <<"api","players","alice","kick","">>,         \* trailing separator
    <<"api","backups","">>,
    <<"api",":res">>,                              \* a template requested verbatim
    <<"api","backups","b1">>,
    <<"api","backups","b1","restore","now">> }

Paths == LiteralPaths \cup FallbackPaths \cup OddPaths

\* Parameterized rules, which the table loop supports and the shipped table
\* does not declare; the resolver is checked over the shipped table and over
\* the shipped table extended by them, before and after the literal rules.
PR_res     == R(<<"api",":res">>,           [POST |-> "generic.create"])
PR_any     == R(<<"api",":res",":id">>,     [DELETE |-> "generic.delete", PUT |-> "generic.edit"])
PR_backup  == R(<<"api","backups",":id">>,  [DELETE |-> "backups.purge"])
PR_role    == R(<<"api","roles",":id">>,    [PUT |-> "roles.rename"])
PR_upload  == R(<<"api",":res","upload">>,  [PUT |-> "generic.upload"])

RuleTables == {
    ROUTE_ACTION_MAP,
    <<PR_res, PR_any, PR_backup, PR_role, PR_upload>> \o ROUTE_ACTION_MAP,
    ROUTE_ACTION_MAP \o <<PR_upload, PR_role, PR_backup, PR_any, PR_res>> }

(***************************************************************************)
(* middleware/demo.ts: getRouteAction                                      *)
(***************************************************************************)
\* routePattern.replace(/:[^/]+/g, '[^/]+')
RegexPattern(routePattern) ==
    [k \in DOMAIN routePattern |->
        IF routePattern[k] \in ParamSegments THEN Wild ELSE routePattern[k]]

\* new RegExp(`^${regexPattern}$`).test(path), and path.match(/^...$/)
RegexTest_EmptyOk(regex, path) ==
    /\ Len(regex) = Len(path)
    /\ \A k \in DOMAIN regex : regex[k] = Wild \/ regex[k] = path[k]

RegexTest(regex, path) ==
    /\ Len(regex) = Len(path)
    /\ \A k \in DOMAIN regex :
          IF regex[k] = Wild THEN path[k] # "" ELSE regex[k] = path[k]

\* ROUTE_ACTION_MAP[path] && routeMap[method]
ExactMatch(path, method) ==
    {i \in DOMAIN rules : rules[i].path = path /\ method \in DOMAIN rules[i].methods}

\* The table loop keeping the last matching entry instead of returning the
\* first.
RECURSIVE PatternLoop_LastMatch(_, _, _)
PatternLoop_LastMatch(i, path, method) ==
    IF i > Len(rules) THEN Null
    ELSE LET later == PatternLoop_LastMatch(i + 1, path, method) IN
         IF later # Null THEN later
         ELSE IF /\ RegexTest(RegexPattern(rules[i].path), path)
                 /\ method \in DOMAIN rules[i].methods
              THEN rules[i].methods[method]
              ELSE Null

\* for (const [routePattern, methodMap] of Object.entries(ROUTE_ACTION_MAP))
RECURSIVE PatternLoop(_, _, _)
PatternLoop(i, path, method) ==
    IF i > Len(rules) THEN Null
    ELSE IF /\ RegexTest(RegexPattern(rules[i].path), path)
            /\ method \in DOMAIN rules[i].methods
         THEN rules[i].methods[method]
         ELSE PatternLoop(i + 1, path, method)

\* The chain with the tests of the method left out.
RECURSIVE FallbackChain_AnyMethod(_, _, _)
FallbackChain_AnyMethod(i, path, method) ==
    IF i > Len(FALLBACK_PREDICATES) THEN Null
    ELSE IF RegexTest(FALLBACK_PREDICATES[i].re, path)
         THEN FALLBACK_PREDICATES[i].action
         ELSE FallbackChain_AnyMethod(i + 1, path, method)

\* the chain of `if (path.match(...) && method === ...) return ...`
RECURSIVE FallbackChain(_, _, _)
FallbackChain(i, path, method) ==
    IF i > Len(FALLBACK_PREDICATES) THEN Null
    ELSE IF /\ RegexTest(FALLBACK_PREDICATES[i].re, path)
            /\ method = FALLBACK_PREDICATES[i].method
         THEN FALLBACK_PREDICATES[i].action
         ELSE FallbackChain(i + 1, path, method)

\* getRouteAction with the chain of predicates ahead of the table.
getRouteAction_FallbackFirst(path, method) ==
    LET byPredicate == FallbackChain(1, path, method) IN
    IF byPredicate # Null THEN byPredicate
    ELSE LET exact == ExactMatch(path, method) IN
         IF exact # {} THEN rules[CHOOSE i \in exact : TRUE].methods[method]
         ELSE PatternLoop(1, path, method)

\* getRouteAction without the exact lookup of lines 92-95.
getRouteAction_PatternFirst(path, method) ==
    LET byPattern == PatternLoop(1, path, method) IN
    IF byPattern # Null THEN byPattern
    ELSE FallbackChain(1, path, method)

getRouteAction(path, method) ==
    LET exact == ExactMatch(path, method) IN
    IF exact # {} THEN rules[CHOOSE i \in exact : TRUE].methods[method]
    ELSE LET byPattern == PatternLoop(1, path, method) IN
         IF byPattern # Null THEN byPattern
         ELSE FallbackChain(1, path, method)


(***************************************************************************)
(* services/demo.ts: the demo policy and the simulated response            *)
(***************************************************************************)
\* JavaScript truthiness of an optional string.
Truthy(s) == s \notin {Undefined, Null, ""}

\* The enabled flag ignored.
isDemoModeEnabled_Always == TRUE

isDemoModeEnabled == enabled

\* Any identified caller taken for the demo identity.
isDemoUser_AnyUser(username) == username # Undefined

\* The demo user only while the store holds a session that has not expired.
isDemoUser_WithSession(username) ==
    username = DEMO_USERNAME /\ \E s \in sessions : now < s.expiresAt

isDemoUser(username) == username = DEMO_USERNAME

\* The allow-list tested for being non-empty instead of for the action.
shouldSimulateAction_AnyListed(action) == simulatedActions # {}

shouldSimulateAction(action) == action \in simulatedActions

DefaultMessage == "Aktion ausgeführt (Demo)"

\* messages[action]
Messages(action) ==
    CASE action = "server.start"            -> "Server wird gestartet... (Demo)"
      [] action = "server.stop"             -> "Server wird gestoppt... (Demo)"
      [] action = "server.restart"          -> "Server wird neugestartet... (Demo)"
      [] action = "console.execute"         -> "Befehl ausgeführt (Demo)"
      [] action = "players.kick"            -> "Spieler wurde gekickt (Demo)"
      [] action = "players.ban"             -> "Spieler wurde gebannt (Demo)"
      [] action = "players.unban"           -> "Spieler wurde entbannt (Demo)"
      [] action = "players.whitelist"       -> "Whitelist aktualisiert (Demo)"
      [] action = "players.op"              -> "Operator-Status geändert (Demo)"
      [] action = "players.permissions"     -> "Berechtigungen aktualisiert (Demo)"
      [] action = "players.teleport"        -> "Spieler wurde teleportiert (Demo)"
      [] action = "players.kill"            -> "Spieler wurde getötet (Demo)"
      [] action = "players.respawn"         -> "Spieler wird respawnt (Demo)"
      [] action = "players.heal"            -> "Spieler wurde geheilt (Demo)"
      [] action = "players.gamemode"        -> "Spielmodus geändert (Demo)"
      [] action = "players.give"            -> "Item gegeben (Demo)"
      [] action = "players.effects"         -> "Effekt angewendet (Demo)"
      [] action = "players.clear_inventory" -> "Inventar geleert (Demo)"
      [] action = "players.message"         -> "Nachricht gesendet (Demo)"
      [] action = "players.edit"            -> "Spielerdaten aktualisiert (Demo)"
      [] action = "backups.create"          -> "Backup wird erstellt... (Demo)"
      [] action = "backups.restore"         -> "Backup wird wiederhergestellt... (Demo)"
      [] action = "backups.delete"          -> "Backup gelöscht (Demo)"
      [] action = "scheduler.edit"          -> "Zeitplan aktualisiert (Demo)"
      [] action = "worlds.manage"           -> "Welt-Einstellungen gespeichert (Demo)"
      [] action = "mods.install"            -> "Mod installiert (Demo)"
      [] action = "mods.delete"             -> "Mod gelöscht (Demo)"
      [] action = "mods.config"             -> "Mod-Konfiguration gespeichert (Demo)"
      [] action = "mods.toggle"             -> "Mod Status geändert (Demo)"
      [] action = "plugins.install"         -> "Plugin installiert (Demo)"
      [] action = "plugins.delete"          -> "Plugin gelöscht (Demo)"
      [] action = "plugins.config"          -> "Plugin-Konfiguration gespeichert (Demo)"
      [] action = "plugins.toggle"          -> "Plugin Status geändert (Demo)"
      [] action = "config.edit"             -> "Konfiguration gespeichert (Demo)"
      [] action = "assets.manage"           -> "Assets aktualisiert (Demo)"
      [] action = "users.create"            -> "Benutzer erstellt (Demo)"
      [] action = "users.edit"              -> "Benutzer aktualisiert (Demo)"
      [] action = "users.delete"            -> "Benutzer gelöscht (Demo)"
      [] action = "roles.manage"            -> "Rolle aktualisiert (Demo)"
      [] action = "settings.edit"           -> "Einstellungen gespeichert (Demo)"
      [] action = "hytale_auth.manage"      -> "Authentifizierung aktualisiert (Demo)"
      [] action = "chat.send"               -> "Nachricht gesendet (Demo)"
      [] OTHER                              -> Undefined

\* success reported only for an action that has a message of its own or
\* comes with a custom one.
createSimulatedResponse_FailUnknown(action, customMessage) ==
    [ success   |-> Truthy(customMessage) \/ Truthy(Messages(action)),
      message   |-> IF Truthy(customMessage) THEN customMessage
                    ELSE IF Truthy(Messages(action)) THEN Messages(action)
                    ELSE DefaultMessage,
      simulated |-> TRUE ]

createSimulatedResponse(action, customMessage) ==
    [ success   |-> TRUE,
      message   |-> IF Truthy(customMessage) THEN customMessage
                    ELSE IF Truthy(Messages(action)) THEN Messages(action)
                    ELSE DefaultMessage,
      simulated |-> TRUE ]

(***************************************************************************)
(* middleware/demo.ts: the identity resolver                               *)
(***************************************************************************)
BearerPrefix == <<"B", "e", "a", "r", "e", "r", " ">>

\* authHeader.startsWith(prefix)
StartsWith(s, prefix) ==
    Len(s) >= Len(prefix) /\ SubSeq(s, 1, Len(prefix)) = prefix

\* authHeader.substring(n), n counted from 0
Substring(s, n) == SubSeq(s, n + 1, Len(s))

\* The token verifier of services/auth.ts: verify(token, kind) gives the
\* payload of a valid token of that kind and none otherwise; it does not
\* throw.  An optional payload is a sequence of length at most one.
verifyToken(token, kind) ==
    CASE token = <<"tok.demo">>  /\ kind = "access" -> << [username |-> DEMO_USERNAME] >>
      [] token = <<"tok.admin">> /\ kind = "access" -> << [username |-> "admin"] >>
      [] token = <<"tok.anon">>  /\ kind = "access" -> << [username |-> ""] >>
      [] OTHER                                      -> << >>

\* req.headers.authorization: the value, or nothing when the header is absent
Authorization(headers) ==
    IF "authorization" \in DOMAIN headers THEN << headers.authorization >> ELSE << >>

\* The scheme compared without regard to case: "bearer " is taken as well.
extractUserFromToken_CaseInsensitive(authHeader) ==
    IF \/ authHeader = << >>
       \/ authHeader[1] = << >>
       \/ /\ ~StartsWith(authHeader[1], BearerPrefix)
          /\ ~StartsWith(authHeader[1], <<"b", "e", "a", "r", "e", "r", " ">>)
    THEN [value |-> Null, verified |-> 0]
    ELSE LET token  == Substring(authHeader[1], 7)
             result == verifyToken(token, "access")
             name   == IF result = << >> THEN Undefined ELSE result[1].username
         IN [value |-> IF Truthy(name) THEN name ELSE Null, verified |-> 1]

\* The username, and the number of calls made to the verifier.
extractUserFromToken(authHeader) ==
    IF authHeader = << >> \/ authHeader[1] = << >> \/ ~StartsWith(authHeader[1], BearerPrefix)
    THEN [value |-> Null, verified |-> 0]
    ELSE LET token  == Substring(authHeader[1], 7)
             result == verifyToken(token, "access")
             name   == IF result = << >> THEN Undefined ELSE result[1].username
         IN [value |-> IF Truthy(name) THEN name ELSE Null, verified |-> 1]


(***************************************************************************)
(* middleware/demo.ts: demoMiddleware                                      *)
(***************************************************************************)
\* obj.key = value, adding the property when the object has none
SetProp(obj, key, value) ==
    [k \in DOMAIN obj \cup {key} |-> IF k = key THEN value ELSE obj[k]]

\* Nothing done yet for the request: no call of next, nothing written with
\* res.json, no call of the verifier, no route resolved, and no value
\* returned by extractUserFromToken (caller is Undefined until it returns).
NoEffect == [next |-> 0, json |-> << >>, verify |-> 0, resolve |-> 0, caller |-> Undefined]

\* return next()
CallNext(r, e) == [req |-> r, eff |-> [e EXCEPT !.next = @ + 1]]

\* res.json(response) followed by next(): the pipeline is not terminated.
WriteJsonThenNext(r, e, response) ==
    [req |-> r, eff |-> [e EXCEPT !.json = Append(@, response), !.next = @ + 1]]

\* res.json(response)
WriteJson(r, e, response) ==
    [req |-> r, eff |-> [e EXCEPT !.json = Append(@, response)]]

\* The header read first, the attached identity only when the header gives
\* no username.
ResolveUsername_HeaderFirst(r) ==
    LET x == extractUserFromToken(Authorization(r.headers))
    IN [value |-> IF Truthy(x.value) THEN x.value
                  ELSE IF Truthy(r.user) THEN r.user ELSE Undefined,
        verified |-> x.verified,
        extracted |-> x.value]

\* const username = req.user || extractUserFromToken(...) || undefined
\* `extracted` is what extractUserFromToken returned, Undefined when the
\* short-circuit of || left it uncalled.
ResolveUsername(r) ==
    IF Truthy(r.user) THEN [value |-> r.user, verified |-> 0, extracted |-> Undefined]
    ELSE LET x == extractUserFromToken(Authorization(r.headers))
         IN [value |-> IF Truthy(x.value) THEN x.value ELSE Undefined,
             verified |-> x.verified,
             extracted |-> x.value]

\* An unresolved route simulated instead of passed (`action &&` for
\* `!action ||`).
InterceptDemo_FailClosed(r, e, username) ==
    LET marked == SetProp(SetProp(r, "isDemo", TRUE), "user", username)
        action == getRouteAction(marked.path, marked.method)
        e2     == [e EXCEPT !.resolve = @ + 1]
    IN IF Truthy(action) /\ ~shouldSimulateAction(action)
       THEN CallNext(marked, e2)
       ELSE WriteJson(marked, e2, createSimulatedResponse(action, Undefined))

\* The request marked only when it is simulated.
InterceptDemo_Unmarked(r, e, username) ==
    LET marked == SetProp(SetProp(r, "isDemo", TRUE), "user", username)
        action == getRouteAction(r.path, r.method)
        e2     == [e EXCEPT !.resolve = @ + 1]
    IN IF ~Truthy(action) \/ ~shouldSimulateAction(action)
       THEN CallNext(r, e2)
       ELSE WriteJson(marked, e2, createSimulatedResponse(action, Undefined))

\* The lines after the demo-user test: mark the request, resolve the route,
\* simulate or pass.
InterceptDemo(r, e, username) ==
    LET marked == SetProp(SetProp(r, "isDemo", TRUE), "user", username)
        action == getRouteAction(marked.path, marked.method)
        e2     == [e EXCEPT !.resolve = @ + 1]
    IN IF ~Truthy(action) \/ ~shouldSimulateAction(action)
       THEN CallNext(marked, e2)
       ELSE WriteJson(marked, e2, createSimulatedResponse(action, Undefined))

\* `next()` without `return` in the branch of the other callers: the run
\* goes on into the interception.
RunMiddleware_NoReturn(r) ==
    IF ~isDemoModeEnabled THEN CallNext(r, NoEffect)
    ELSE LET u  == ResolveUsername(r)
             e1 == [NoEffect EXCEPT !.verify = u.verified, !.caller = u.extracted]
         IN IF ~isDemoUser(u.value)
            THEN InterceptDemo(r, CallNext(r, e1).eff, u.value)
            ELSE InterceptDemo(r, e1, u.value)

\* The test of the enabled flag left out.
RunMiddleware_NoEnabledTest(r) ==
    LET u  == ResolveUsername(r)
        e1 == [NoEffect EXCEPT !.verify = u.verified, !.caller = u.extracted]
    IN IF ~isDemoUser(u.value) THEN CallNext(r, e1)
       ELSE InterceptDemo(r, e1, u.value)

\* The request object and the effects once demoMiddleware(req, res, next)
\* has returned.
RunMiddleware(r) ==
    IF ~isDemoModeEnabled THEN CallNext(r, NoEffect)
    ELSE LET u  == ResolveUsername(r)
             e1 == [NoEffect EXCEPT !.verify = u.verified, !.caller = u.extracted]
         IN IF ~isDemoUser(u.value) THEN CallNext(r, e1)
            ELSE InterceptDemo(r, e1, u.value)

(***************************************************************************)
(* Requests the middleware is run on.                                      *)
(***************************************************************************)
Hdr(scheme, token) == [host |-> "panel", authorization |-> scheme \o token]

Tokens == { <<"tok.demo">>, <<"tok.admin">>, <<"tok.anon">>, <<"tok.expired">>, << >> }

Headers ==
    { [host |-> "panel"],                                    \* no Authorization
      Hdr(<< >>, << >>),                                     \* empty value
      Hdr(<<"B","a","s","i","c"," ">>, <<"tok.demo">>),
      Hdr(<<"b","e","a","r","e","r"," ">>, <<"tok.demo">>),
      Hdr(<<"B","e","a","r","e","r">>, <<"tok.demo">>) }
    \cup { Hdr(BearerPrefix, t) : t \in Tokens }

AttachedUsers == {Undefined, "", DEMO_USERNAME, "admin"}

ReqPaths == {
    <<"api","backups">>,
    <<"api","players">>,
    <<"api","server","start">>,
    <<"api","auth","users">>,
    <<"api","players","alice","kick">>,
    <<"api","players","","kick">>,
    <<"api","auth","users","alice">>,
    <<"api","backups","b1">>,
    <<"api","unknown">>,
    <<"">> }

Requests ==
    { [user |-> u, headers |-> h, path |-> p, method |-> m] :
        u \in AttachedUsers, h \in Headers, p \in ReqPaths, m \in Methods }

\* Every action the shipped rules and predicates can resolve to.
RegistryActions ==
    UNION { {e.methods[m] : m \in DOMAIN e.methods} : e \in Range(ROUTE_ACTION_MAP) }
    \cup { f.action : f \in Range(FALLBACK_PREDICATES) }

\* Values of config.demoMode.simulatedActions: nothing, a few actions, every
\* registry action but the user management ones (plus a read permission,
\* which no route resolves to), and every registry action.
AllowLists == {
    {},
    {"backups.create", "server.start", "players.kick"},
    (RegistryActions \ {"users.create", "users.edit", "users.delete"}) \cup {"users.view"},
    RegistryActions }

NoRequest == [user |-> Undefined, headers |-> [host |-> "panel"], path |-> <<"">>, method |-> "GET"]
NoQuery == [path |-> <<"">>, method |-> "GET"]

(***************************************************************************)
(* The parts of the state as they are when nothing has run yet.            *)
(***************************************************************************)
NoDate == 0 - 1        \* a Date that is null
NoCount == 0 - 1       \* no count returned
NoResponse == << >>

MwIdle == pc = "idle" /\ req = NoRequest /\ req0 = NoRequest /\ res = NoEffect

RouteIdle == rq = NoQuery /\ rr = Undefined

RespIdle == sq = [action |-> Undefined, customMessage |-> Undefined] /\ sr = NoResponse

\* services/demo.ts as loaded, the configured interval being `hours`:
\* no session, no reset yet, no timer.
SvcLoaded(hours) ==
    /\ now = 0
    /\ intervalHours = hours
    /\ sessions = {}
    /\ resetState = [lastReset |-> NoDate, nextReset |-> NoDate, resetIntervalHours |-> hours]
    /\ timers = << >>
    /\ inits = 0
    /\ op = "other"
    /\ count = NoCount
    /\ removed = 0

\* No login started, none waiting, none ended.
NoOutcome == << >>

LoginIdle == calls = 0 /\ pending = << >> /\ outcome = NoOutcome

\* The frontend store as defineStore builds it: ref(false), ref(null),
\* ref(false); no call of checkDemoMode yet.
NewDemoStore == [isDemoMode |-> FALSE, demoMessage |-> Null, checked |-> FALSE]

FrontendIdle == demoStore = NewDemoStore /\ checkCalls = << >> /\ fetches = 0

\* An empty data directory, an empty environment, no migration call yet.
NoFiles == [config |-> "absent", users |-> "absent", panel |-> "absent", setup |-> "absent"]

NoEnv == [jwtSecret |-> FALSE, credentials |-> FALSE, serverJar |-> FALSE]

NoMigration ==
    [called |-> FALSE, ran |-> FALSE, result |-> FALSE, failedAt |-> "none", writes |-> {}]

MigrationIdle == files = NoFiles /\ env = NoEnv /\ mig = NoMigration

(***************************************************************************)
(* Specification of the middleware: the configuration is loaded once, then *)
(* requests arrive and are handled one at a time.                          *)
(***************************************************************************)
Init ==
    /\ enabled \in BOOLEAN
    /\ simulatedActions \in AllowLists
    /\ rules = ROUTE_ACTION_MAP
    /\ MwIdle
    /\ RouteIdle
    /\ RespIdle
    /\ SvcLoaded(24)
    /\ LoginIdle
    /\ FrontendIdle
    /\ MigrationIdle

\* A request reaches the middleware.
Receive ==
    /\ pc = "idle"
    /\ \E r \in Requests : req' = r /\ req0' = r
    /\ res' = NoEffect
    /\ pc' = "pending"
    /\ UNCHANGED <<cfgVars, routeVars, respVars, loginVars, feVars, migVars, svcVars>>

\* A middleware that sweeps the expired sessions on its way.
demoMiddleware_Sweeping ==
    /\ pc = "pending"
    /\ LET out == RunMiddleware(req) IN req' = out.req /\ res' = out.eff
    /\ pc' = "done"
    /\ sessions' = {s \in sessions : ~(s.expiresAt < now)}
    /\ UNCHANGED <<cfgVars, req0, routeVars, respVars, loginVars, feVars, migVars,
                   now, intervalHours, resetState, timers, inits, op, count, removed>>

demoMiddleware ==
    /\ pc = "pending"
    /\ LET out == RunMiddleware(req) IN req' = out.req /\ res' = out.eff
    /\ pc' = "done"
    /\ UNCHANGED <<cfgVars, req0, routeVars, respVars, loginVars, feVars, migVars, svcVars>>

\* The request leaves the middleware: the response has been sent, or the
\* next stage has taken the request over.
Complete ==
    /\ pc = "done"
    /\ pc' = "idle"
    /\ req' = NoRequest
    /\ req0' = NoRequest
    /\ res' = NoEffect
    /\ UNCHANGED <<cfgVars, routeVars, respVars, loginVars, feVars, migVars, svcVars>>

Next == Receive \/ demoMiddleware \/ Complete

Spec == Init /\ [][Next]_vars

(***************************************************************************)
(* Specification of the resolver alone, over the rule tables.              *)
(***************************************************************************)
InitRoute ==
    /\ enabled = FALSE
    /\ simulatedActions = {}
    /\ rules \in RuleTables
    /\ MwIdle
    /\ \E p \in Paths, m \in Methods : rq = [path |-> p, method |-> m]
    /\ rr = Undefined
    /\ RespIdle
    /\ SvcLoaded(24)
    /\ LoginIdle
    /\ FrontendIdle
    /\ MigrationIdle

\* resolveAction(path, method) is called on the query.
Resolve ==
    /\ rr = Undefined
    /\ rr' = getRouteAction(rq.path, rq.method)
    /\ UNCHANGED <<cfgVars, mwVars, rq, respVars, loginVars, feVars, migVars, svcVars>>

NextRoute == Resolve

SpecRoute == InitRoute /\ [][NextRoute]_vars

(***************************************************************************)
(* Specification of the response builder alone: createSimulatedResponse is *)
(* called once, in any configuration, with any action identifier (those of *)
(* the registry, one no rule resolves to, one without a message, the empty *)
(* string) and with or without a custom message.                           *)
(***************************************************************************)
ResponseActions == RegistryActions \cup {"users.view", "plugins.reload", ""}

CustomMessages == {Undefined, "", "Gespeichert (Demo)"}

InitResponse ==
    /\ enabled \in BOOLEAN
    /\ simulatedActions \in AllowLists
    /\ rules = ROUTE_ACTION_MAP
    /\ MwIdle
    /\ RouteIdle
    /\ \E a \in ResponseActions, c \in CustomMessages :
          sq = [action |-> a, customMessage |-> c]
    /\ sr = NoResponse
    /\ SvcLoaded(24)
    /\ LoginIdle
    /\ FrontendIdle
    /\ MigrationIdle

Respond ==
    /\ sr = NoResponse
    /\ sr' = << createSimulatedResponse(sq.action, sq.customMessage) >>
    /\ UNCHANGED <<cfgVars, mwVars, routeVars, sq, svcVars, loginVars, feVars, migVars>>

NextResponse == Respond

SpecResponse == InitResponse /\ [][NextResponse]_vars

(***************************************************************************)
(* services/demo.ts: the session store and the reset scheduler.            *)
(* Dates are milliseconds since the process started.                       *)
(***************************************************************************)
\* `60 * 60 * 1000`, the milliseconds of an hour
MS_PER_HOUR == 60 * 60 * 1000

MS_PER_SECOND == MS_PER_HOUR \div (60 * 60)

\* now.getTime() + 24 * 60 * 60 * 1000
SESSION_TTL_MS == 24 * 60 * 60 * 1000

\* `demo_${Date.now()}_${random}`: the time of the call and the random part
generateSessionId(t, random) == <<t, random>>

\* A set that also drops the entries expired by the time of the new one.
MapSet_Evicting(store, session) ==
    {s \in store : s.sessionId # session.sessionId /\ ~(s.expiresAt < session.createdAt)}
        \cup {session}

\* demoSessions.set(sessionId, session): an entry with the same key is replaced
MapSet(store, session) ==
    {s \in store : s.sessionId # session.sessionId} \cup {session}

\* A session that lives 24 minutes (a factor of 60 left out).
NewSession_ShortTtl(t, random) ==
    [ username  |-> DEMO_USERNAME,
      createdAt |-> t,
      expiresAt |-> t + 24 * 60 * 1000,
      sessionId |-> generateSessionId(t, random) ]

\* The session createDemoLogin builds at time t.
NewSession(t, random) ==
    [ username  |-> DEMO_USERNAME,
      createdAt |-> t,
      expiresAt |-> t + SESSION_TTL_MS,
      sessionId |-> generateSessionId(t, random) ]

\* The sweep of getActiveDemoSessionCount: `session.expiresAt < now` deletes
Expired(session, t) == session.expiresAt < t

Sweep(store, t) == {s \in store : ~Expired(s, t)}

\* resetState after the assignments initializeDemoReset and performDemoReset
\* share: lastReset = now, nextReset = now + configured hours.
Stamp(state, t, hours) ==
    [state EXCEPT !.lastReset = t, !.nextReset = t + hours * MS_PER_HOUR]

\* setInterval(callback, period) called at time t
SetInterval(t, period) == [due |-> t + period, period |-> period]

\* A timer that runs its callback once and is never due again.
Rearm_OneShot(timer) == [timer EXCEPT !.due = NoDate]

\* A repeating timer once its callback has run: due again one period later.
Rearm(timer) == [timer EXCEPT !.due = @ + timer.period]

\* A reset that only sweeps the expired sessions.
PerformReset_SweepOnly(store, state, t, hours) ==
    [sessions |-> Sweep(store, t), resetState |-> Stamp(state, t, hours)]

\* The store and resetState after performDemoReset() called at time t:
\* demoSessions.clear(), then the two dates.
PerformReset(store, state, t, hours) ==
    [sessions |-> {}, resetState |-> Stamp(state, t, hours)]

(***************************************************************************)
(* Specification of the service.  The clock moves over a grid of half days *)
(* and seconds; timers fire at the instant they are due; logins, counts,   *)
(* resets and changes of the configured interval come at any time, and     *)
(* initializeDemoReset is called while the process starts (its first       *)
(* second), any number of times up to MaxInits.                            *)
(***************************************************************************)
MaxHalfDays == 2
MaxSessions == 2
MaxInits == 2

HALF_DAY_MS == 12 * MS_PER_HOUR

\* The instants of the grid: each half day, and one second after it.
TimePoints ==
    {h * HALF_DAY_MS + d : h \in 0..MaxHalfDays, d \in {0, MS_PER_SECOND}}

\* initializeDemoReset is called during start-up.
Starting == now <= MS_PER_SECOND

\* Values of Math.random().toString(36).substr(2, 9)
RandomParts == {"k3x9q2m1z", "0b7w5e8ta"}

\* Values of config.demoMode.resetIntervalHours
IntervalChoices == {12, 24}

InitSession ==
    /\ enabled \in BOOLEAN
    /\ simulatedActions = {}
    /\ rules = ROUTE_ACTION_MAP
    /\ MwIdle
    /\ RouteIdle
    /\ RespIdle
    /\ \E h \in IntervalChoices : SvcLoaded(h)
    /\ LoginIdle
    /\ FrontendIdle
    /\ MigrationIdle

\* createDemoLogin(), the tokens issued
createDemoLogin ==
    /\ Cardinality(sessions) < MaxSessions
    /\ \E random \in RandomParts :
          sessions' = MapSet(sessions, NewSession(now, random))
    /\ op' = "other"
    /\ count' = NoCount
    /\ removed' = 0
    /\ UNCHANGED <<cfgVars, mwVars, routeVars, respVars, loginVars, feVars, migVars,
                   now, intervalHours, resetState, timers, inits>>

\* getActiveDemoSessionCount()
getActiveDemoSessionCount ==
    /\ sessions' = Sweep(sessions, now)
    /\ count' = Cardinality(sessions')
    /\ removed' = Cardinality(sessions) - Cardinality(sessions')
    /\ op' = "count"
    /\ UNCHANGED <<cfgVars, mwVars, routeVars, respVars, loginVars, feVars, migVars,
                   now, intervalHours, resetState, timers, inits>>

\* initializeDemoReset()
initializeDemoReset ==
    /\ Starting
    /\ inits < MaxInits
    /\ inits' = inits + 1
    /\ IF ~enabled
       THEN UNCHANGED <<resetState, timers>>
       ELSE /\ resetState' = Stamp(resetState, now, intervalHours)
            /\ timers' = Append(timers, SetInterval(now, intervalHours * MS_PER_HOUR))
    /\ op' = "other"
    /\ count' = NoCount
    /\ removed' = 0
    /\ UNCHANGED <<cfgVars, mwVars, routeVars, respVars, loginVars, feVars, migVars, now, intervalHours, sessions>>

\* performDemoReset() called directly
performDemoReset ==
    /\ LET out == PerformReset(sessions, resetState, now, intervalHours)
       IN sessions' = out.sessions /\ resetState' = out.resetState
    /\ removed' = Cardinality(sessions)
    /\ op' = "reset"
    /\ count' = NoCount
    /\ UNCHANGED <<cfgVars, mwVars, routeVars, respVars, loginVars, feVars, migVars, now, intervalHours, timers, inits>>

\* The callback of the i-th timer, `() => { performDemoReset(); }`, run when
\* the timer is due.
TimerFire(i) ==
    /\ i \in DOMAIN timers
    /\ timers[i].due = now
    /\ LET out == PerformReset(sessions, resetState, now, intervalHours)
       IN sessions' = out.sessions /\ resetState' = out.resetState
    /\ timers' = [timers EXCEPT ![i] = Rearm(@)]
    /\ removed' = Cardinality(sessions)
    /\ op' = "fire"
    /\ count' = NoCount
    /\ UNCHANGED <<cfgVars, mwVars, routeVars, respVars, loginVars, feVars, migVars, now, intervalHours, inits>>

\* Time passes, up to the next instant at which a timer is due.
Advance ==
    /\ \E t \in TimePoints :
          /\ t > now
          /\ \A i \in DOMAIN timers : ~(now <= timers[i].due /\ timers[i].due < t)
          /\ now' = t
    /\ op' = "other"
    /\ count' = NoCount
    /\ removed' = 0
    /\ UNCHANGED <<cfgVars, mwVars, routeVars, respVars, loginVars, feVars, migVars,
                   intervalHours, sessions, resetState, timers, inits>>

\* config.demoMode.resetIntervalHours is given another value.
ConfigChange ==
    /\ \E h \in IntervalChoices \ {intervalHours} : intervalHours' = h
    /\ op' = "other"
    /\ count' = NoCount
    /\ removed' = 0
    /\ UNCHANGED <<cfgVars, mwVars, routeVars, respVars, loginVars, feVars, migVars,
                   now, sessions, resetState, timers, inits>>

NextSession ==
    \/ createDemoLogin
    \/ getActiveDemoSessionCount
    \/ initializeDemoReset
    \/ performDemoReset
    \/ \E i \in 1..MaxInits : TimerFire(i)
    \/ Advance
    \/ ConfigChange

SpecSession == InitSession /\ [][NextSession]_vars

(***************************************************************************)
(* Specification of the scheduler under fairness.  Time does not stop      *)
(* short of the horizon (weak fairness of Advance) and the event loop runs *)
(* the callback of every timer that is due (weak fairness of each          *)
(* TimerFire); logins and calls of initializeDemoReset come as they will.  *)
(***************************************************************************)
NextTimer ==
    \/ createDemoLogin
    \/ initializeDemoReset
    \/ \E i \in 1..MaxInits : TimerFire(i)
    \/ Advance

FairSpecTimer ==
    /\ InitSession
    /\ [][NextTimer]_vars
    /\ WF_vars(Advance)
    /\ \A i \in 1..MaxInits : WF_vars(TimerFire(i))

(***************************************************************************)
(* Specification of the login as it runs: createDemoLogin stores the       *)
(* session, then waits for the access token; while it waits, other logins, *)
(* counts and resets run and time passes; then it returns its response, or *)
(* fails when the token cannot be issued.                                  *)
(***************************************************************************)
Stored(id) == \E s \in sessions : s.sessionId = id

Remove(seq, i) == SubSeq(seq, 1, i - 1) \o SubSeq(seq, i + 1, Len(seq))

InitLogin ==
    /\ enabled \in BOOLEAN
    /\ simulatedActions = {}
    /\ rules = ROUTE_ACTION_MAP
    /\ MwIdle
    /\ RouteIdle
    /\ RespIdle
    /\ SvcLoaded(24)
    /\ LoginIdle
    /\ FrontendIdle
    /\ MigrationIdle

\* createDemoLogin() from its first line to `await createAccessToken(...)`
LoginStart ==
    /\ calls < MaxSessions
    /\ \E random \in RandomParts :
          LET session == NewSession(now, random)
          IN  /\ sessions' = MapSet(sessions, session)
              /\ pending' = Append(pending, session.sessionId)
    /\ calls' = calls + 1
    /\ outcome' = NoOutcome
    /\ op' = "other"
    /\ count' = NoCount
    /\ removed' = 0
    /\ UNCHANGED <<cfgVars, mwVars, routeVars, respVars, feVars, migVars,
                   now, intervalHours, resetState, timers, inits>>

\* The token is there: createDemoLogin builds its response and returns.
LoginReturn(i) ==
    /\ i \in DOMAIN pending
    /\ outcome' = << [sessionId |-> pending[i], returned |-> TRUE,
                      stored |-> Stored(pending[i])] >>
    /\ pending' = Remove(pending, i)
    /\ UNCHANGED <<cfgVars, mwVars, routeVars, respVars, svcVars, calls, feVars, migVars>>

\* createAccessToken rejects: createDemoLogin throws, nothing is undone.
LoginFail(i) ==
    /\ i \in DOMAIN pending
    /\ outcome' = << [sessionId |-> pending[i], returned |-> FALSE,
                      stored |-> Stored(pending[i])] >>
    /\ pending' = Remove(pending, i)
    /\ UNCHANGED <<cfgVars, mwVars, routeVars, respVars, svcVars, calls, feVars, migVars>>

NextLogin ==
    \/ LoginStart
    \/ \E i \in 1..MaxSessions : LoginReturn(i)
    \/ \E i \in 1..MaxSessions : LoginFail(i)
    \/ getActiveDemoSessionCount
    \/ performDemoReset
    \/ Advance

SpecLogin == InitLogin /\ [][NextLogin]_vars

(***************************************************************************)
(* Specification of the middleware next to the service: requests are       *)
(* handled while sessions are created, counted and reset and the scheduler *)
(* runs.  demoMiddleware is synchronous, so the service operations come    *)
(* between requests.                                                       *)
(***************************************************************************)
AppRequests ==
    { [user |-> Undefined, headers |-> h, path |-> p, method |-> "POST"] :
        h \in {Hdr(BearerPrefix, <<"tok.admin">>), Hdr(BearerPrefix, <<"tok.demo">>)},
        p \in {<<"api", "backups">>, <<"api", "unknown">>} }

InitApp ==
    /\ enabled \in BOOLEAN
    /\ simulatedActions = {"backups.create", "server.start", "players.kick"}
    /\ rules = ROUTE_ACTION_MAP
    /\ MwIdle
    /\ RouteIdle
    /\ RespIdle
    /\ SvcLoaded(24)
    /\ LoginIdle
    /\ FrontendIdle
    /\ MigrationIdle

ReceiveApp ==
    /\ pc = "idle"
    /\ \E r \in AppRequests : req' = r /\ req0' = r
    /\ res' = NoEffect
    /\ pc' = "pending"
    /\ UNCHANGED <<cfgVars, routeVars, respVars, loginVars, feVars, migVars, svcVars>>

NextApp ==
    \/ ReceiveApp
    \/ demoMiddleware
    \/ Complete
    \/ pc = "idle" /\ createDemoLogin
    \/ pc = "idle" /\ getActiveDemoSessionCount
    \/ pc = "idle" /\ initializeDemoReset
    \/ pc = "idle" /\ performDemoReset
    \/ pc = "idle" /\ \E i \in 1..MaxInits : TimerFire(i)
    \/ pc = "idle" /\ Advance

SpecApp == InitApp /\ [][NextApp]_vars

(***************************************************************************)
(* stores/demo.ts (frontend): useDemoStore.checkDemoMode                   *)
(* A call runs to its first `await`, goes on when the fetch settles, and   *)
(* again when the body is parsed; other calls run in between.              *)
(***************************************************************************)
MaxCalls == 3

\* What fetch('/api/server/demo') settles to: a rejection, or a response
\* with its `ok` flag.
FetchResults == {"rejected", "not ok", "ok"}

\* What response.json() settles to: a rejection (the body is not JSON:
\* parsed is FALSE), or the parsed body; a field the body lacks is the empty
\* sequence.
JsonResults ==
    { [parsed |-> FALSE, demoMode |-> << >>, message |-> << >>] } \cup
    { [parsed |-> TRUE, demoMode |-> d, message |-> m] :
        d \in {<< >>, <<FALSE>>, <<TRUE>>},
        m \in {<< >>, <<"">>, <<"Demo">>} }

\* `checked.value = true; return isDemoMode.value`
Finish(store) == [store EXCEPT !.checked = TRUE]

Call(at, result) == [pc |-> at, result |-> result]

\* checkDemoMode() up to its first await, or to its early return
checkDemoMode ==
    /\ Len(checkCalls) < MaxCalls
    /\ IF demoStore.checked
       THEN /\ checkCalls' = Append(checkCalls, Call("done", <<demoStore.isDemoMode>>))
            /\ UNCHANGED fetches
       ELSE /\ checkCalls' = Append(checkCalls, Call("fetch", << >>))
            /\ fetches' = fetches + 1
    /\ UNCHANGED <<cfgVars, mwVars, routeVars, respVars, svcVars, loginVars, demoStore, migVars>>

\* The fetch of the i-th call settles.
FetchSettles(i) ==
    /\ i \in DOMAIN checkCalls
    /\ checkCalls[i].pc = "fetch"
    /\ \E r \in FetchResults :
          CASE r = "ok" ->
                 /\ checkCalls' = [checkCalls EXCEPT ![i] = Call("json", << >>)]
                 /\ UNCHANGED demoStore
            [] r = "not ok" ->
                 /\ demoStore' = Finish(demoStore)
                 /\ checkCalls' =
                        [checkCalls EXCEPT ![i] = Call("done", <<demoStore'.isDemoMode>>)]
            [] r = "rejected" ->
                 /\ demoStore' = Finish([demoStore EXCEPT !.isDemoMode = FALSE])
                 /\ checkCalls' =
                        [checkCalls EXCEPT ![i] = Call("done", <<demoStore'.isDemoMode>>)]
    /\ UNCHANGED <<cfgVars, mwVars, routeVars, respVars, svcVars, loginVars, fetches, migVars>>

\* response.json() of the i-th call settles.
JsonSettles(i) ==
    /\ i \in DOMAIN checkCalls
    /\ checkCalls[i].pc = "json"
    /\ \E data \in JsonResults :
          demoStore' =
              IF ~data.parsed
              THEN Finish([demoStore EXCEPT !.isDemoMode = FALSE])
              ELSE Finish([demoStore EXCEPT
                      !.isDemoMode = (data.demoMode = <<TRUE>>),
                      !.demoMessage = IF data.message # << >> /\ data.message[1] # ""
                                      THEN data.message[1] ELSE Null])
    /\ checkCalls' = [checkCalls EXCEPT ![i] = Call("done", <<demoStore'.isDemoMode>>)]
    /\ UNCHANGED <<cfgVars, mwVars, routeVars, respVars, svcVars, loginVars, fetches, migVars>>

InitFrontend ==
    /\ enabled \in BOOLEAN
    /\ simulatedActions = {}
    /\ rules = ROUTE_ACTION_MAP
    /\ MwIdle
    /\ RouteIdle
    /\ RespIdle
    /\ SvcLoaded(24)
    /\ LoginIdle
    /\ FrontendIdle
    /\ MigrationIdle

NextFrontend ==
    \/ checkDemoMode
    \/ \E i \in 1..MaxCalls : FetchSettles(i)
    \/ \E i \in 1..MaxCalls : JsonSettles(i)

SpecFrontend == InitFrontend /\ [][NextFrontend]_vars

(***************************************************************************)
(* services/migration.ts: checkAndRunMigration, runMigration               *)
(* A file of the data directory is "absent", "corrupt" (it exists and is   *)
(* not the JSON its readers expect) or holds what its name says:           *)
(* config.json is "incomplete" (no setupComplete) or "complete",           *)
(* users.json is "empty" (no users) or "users", the others are "present".  *)
(***************************************************************************)
\* isExistingInstallation(): users.json is there, or JWT_SECRET and the
\* manager credentials are set, or the server jar and panel-config.json are
\* there.
isExistingInstallation(fs, e) ==
    \/ fs.users # "absent"
    \/ e.jwtSecret /\ e.credentials
    \/ e.serverJar /\ fs.panel # "absent"

\* The test for an admin left out.
hasExistingAdmin_Never(fs) == FALSE

\* hasExistingAdmin(): users.json parses and its users list is not empty
hasExistingAdmin(fs) == fs.users = "users"

\* What a successful writeFile leaves in the file of that name.
Written(name) ==
    CASE name = "users"  -> "users"
      [] name = "config" -> "complete"
      [] OTHER           -> "present"

\* The outcome of runMigration: the files, the value returned, the step
\* that threw ("none" when none did) and the files written to.
Outcome(fs, result, failedAt, writes) ==
    [files |-> fs, result |-> result, failedAt |-> failedAt, writes |-> writes]

\* `await writeFile(...)` for each of names in turn.  The write named by
\* fault throws, leaving its file untouched or, when partial, truncated; the
\* catch returns false.  When all are written, reloadConfigFromFile() is
\* called (it returns) and runMigration returns true.
RECURSIVE WriteFiles(_, _, _, _, _)
WriteFiles(fs, names, fault, partial, writes) ==
    IF names = << >> THEN Outcome(fs, TRUE, "none", writes)
    ELSE LET name == Head(names) IN
         IF fault = name
         THEN IF partial
              THEN Outcome([fs EXCEPT ![name] = "corrupt"], FALSE, name, writes \cup {name})
              ELSE Outcome(fs, FALSE, name, writes)
         ELSE WriteFiles([fs EXCEPT ![name] = Written(name)], Tail(names), fault, partial,
                         writes \cup {name})

\* runMigration(): mkdir, the reads, bcrypt.hash and users.json when there
\* is no admin and the credentials are set, then panel-config.json,
\* setup-config.json and config.json.
runMigration(fs, e, fault, partial) ==
    IF fault = "mkdir" THEN Outcome(fs, FALSE, "mkdir", {})
    ELSE LET hasAdmin == hasExistingAdmin(fs) IN
         IF ~hasAdmin /\ e.credentials
         THEN IF fault = "hash" THEN Outcome(fs, FALSE, "hash", {})
              ELSE WriteFiles(fs, <<"users", "panel", "setup", "config">>, fault, partial, {})
         ELSE WriteFiles(fs, <<"panel", "setup", "config">>, fault, partial, {})

\* What can throw inside runMigration's try: mkdir, bcrypt.hash, and each
\* writeFile.
Faults == {"none", "mkdir", "hash", "users", "panel", "setup", "config"}

\* checkAndRunMigration() at a start of the server
checkAndRunMigration ==
    /\ \E fault \in Faults, partial \in BOOLEAN :
          IF files.config = "complete" \/ ~isExistingInstallation(files, env)
          THEN /\ mig' = [called |-> TRUE, ran |-> FALSE, result |-> TRUE,
                          failedAt |-> "none", writes |-> {}]
               /\ UNCHANGED files
          ELSE LET out == runMigration(files, env, fault, partial)
               IN  /\ mig' = [called |-> TRUE, ran |-> TRUE, result |-> out.result,
                              failedAt |-> out.failedAt, writes |-> out.writes]
                   /\ files' = out.files
    /\ UNCHANGED <<cfgVars, mwVars, routeVars, respVars, svcVars, loginVars, feVars, env>>

\* The data directory and the environment a server can be started in.
FileStates ==
    [ config : {"absent", "corrupt", "incomplete", "complete"},
      users  : {"absent", "corrupt", "empty", "users"},
      panel  : {"absent", "corrupt", "present"},
      setup  : {"absent", "present"} ]

Environments == [jwtSecret : BOOLEAN, credentials : BOOLEAN, serverJar : BOOLEAN]

InitMigration ==
    /\ enabled = FALSE
    /\ simulatedActions = {}
    /\ rules = ROUTE_ACTION_MAP
    /\ MwIdle
    /\ RouteIdle
    /\ RespIdle
    /\ SvcLoaded(24)
    /\ LoginIdle
    /\ FrontendIdle
    /\ files \in FileStates
    /\ env \in Environments
    /\ mig = NoMigration

NextMigration == checkAndRunMigration

SpecMigration == InitMigration /\ [][NextMigration]_vars


(***************************************************************************)
(* Vocabulary of the claims about the middleware.                          *)
(***************************************************************************)
\* The caller of request r is the demo identity: it is attached to the
\* request, or nothing is attached and the request bears a credential the
\* verifier accepts as the demo identity's.
DemoCaller(r) ==
    \/ r.user = DEMO_USERNAME
    \/ /\ r.user \in {Undefined, ""}
       /\ \E t \in Tokens :
             /\ r.headers = Hdr(BearerPrefix, t)
             /\ verifyToken(t, "access") = << [username |-> DEMO_USERNAME] >>

\* The action the request's route resolves to (Null when it resolves to none).
RouteOf(r) == getRouteAction(r.path, r.method)

Handled == pc = "done"
PassedOn == res.next = 1 /\ res.json = << >>
Simulated == res.next = 0 /\ Len(res.json) = 1

\* The request as received, with the demo marker and identity attached.
Marked(r) ==
    [k \in {"user", "headers", "path", "method", "isDemo"} |->
        CASE k = "isDemo" -> TRUE
          [] k = "user"   -> DEMO_USERNAME
          [] OTHER        -> r[k]]

MessageTexts == {Messages(a) : a \in RegistryActions} \cup {DefaultMessage}

(***************************************************************************)
(* C1.  A request of the demo identity, with demo mode enabled, whose      *)
(* route resolves to an action of the simulated-action allow-list is       *)
(* answered with the simulated envelope {success: true, message,           *)
(* simulated: true}, the message being the one configured for the action,  *)
(* and next is not invoked.                                                *)
(***************************************************************************)
C1_SimulatedEnvelope ==
    (Handled /\ enabled /\ DemoCaller(req0) /\ RouteOf(req0) \in simulatedActions)
    => /\ res.next = 0
       /\ Len(res.json) = 1
       /\ DOMAIN res.json[1] = {"success", "message", "simulated"}
       /\ res.json[1].success = TRUE
       /\ res.json[1].simulated = TRUE
       /\ res.json[1].message \in MessageTexts \ {Undefined}
       /\ Messages(RouteOf(req0)) # Undefined
            => res.json[1].message = Messages(RouteOf(req0))

\* POST /api/backups by the demo identity has been answered by the envelope.
C1_Witness ==
    /\ Handled /\ enabled /\ DemoCaller(req0)
    /\ req0.path = <<"api","backups">> /\ req0.method = "POST"
    /\ "backups.create" \in simulatedActions
    /\ res.next = 0
    /\ res.json = << [success |-> TRUE, message |-> "Backup wird erstellt... (Demo)", simulated |-> TRUE] >>

(***************************************************************************)
(* C2.  For the demo identity with demo mode enabled and a route that      *)
(* resolves to an action, the request is simulated if and only if the      *)
(* action is in the allow-list; otherwise it is passed to the real handler.*)
(***************************************************************************)
C2_SimulateIffAllowListed ==
    (Handled /\ enabled /\ DemoCaller(req0) /\ RouteOf(req0) # Null)
    => /\ Simulated <=> RouteOf(req0) \in simulatedActions
       /\ PassedOn <=> RouteOf(req0) \notin simulatedActions

\* A registry action missing from a non-empty allow-list reached the real
\* handler for the demo identity.
C2_Witness ==
    /\ Handled /\ enabled /\ DemoCaller(req0)
    /\ RouteOf(req0) = "users.delete"
    /\ "users.delete" \notin simulatedActions /\ "backups.delete" \in simulatedActions
    /\ PassedOn

(***************************************************************************)
(* C3.  A request whose caller is not the demo identity (or has none) is   *)
(* never answered with a simulated response and never marked: next is      *)
(* called and the request is as it was received.                           *)
(***************************************************************************)
C3_OthersUntouched ==
    (Handled /\ ~DemoCaller(req0))
    => PassedOn /\ req = req0 /\ "isDemo" \notin DOMAIN req

\* An administrator's POST /api/backups, with backups.create allow-listed
\* and demo mode enabled, reached the real handler.
C3_Witness ==
    /\ Handled /\ enabled /\ ~DemoCaller(req0)
    /\ req0.user = Undefined /\ req0.headers = Hdr(BearerPrefix, <<"tok.admin">>)
    /\ RouteOf(req0) = "backups.create" /\ "backups.create" \in simulatedActions
    /\ PassedOn /\ req = req0

(***************************************************************************)
(* C4.  With demo mode disabled the middleware is a pass-through: next is  *)
(* called, the verifier is not invoked, no route is resolved, and the      *)
(* request is as it was received.                                          *)
(***************************************************************************)
C4_DisabledPassThrough ==
    (Handled /\ ~enabled)
    => PassedOn /\ res.verify = 0 /\ res.resolve = 0 /\ req = req0

\* A request bearing the demo credential, for an allow-listed action, passed
\* through with demo mode disabled.
C4_Witness ==
    /\ Handled /\ ~enabled
    /\ req0.user = Undefined /\ req0.headers = Hdr(BearerPrefix, <<"tok.demo">>)
    /\ RouteOf(req0) = "backups.create" /\ "backups.create" \in simulatedActions
    /\ PassedOn /\ res.verify = 0

(***************************************************************************)
(* C5.  A request whose route resolves to no action is never simulated,    *)
(* whoever the caller and whatever the allow-list: next is called.         *)
(***************************************************************************)
C5_UnresolvedPasses ==
    (Handled /\ RouteOf(req0) = Null) => PassedOn

\* The demo identity's POST /api/unknown passed with every registry action
\* allow-listed.
C5_Witness ==
    /\ Handled /\ enabled /\ DemoCaller(req0)
    /\ req0.path = <<"api","unknown">> /\ req0.method = "POST"
    /\ simulatedActions = RegistryActions
    /\ res.resolve = 1 /\ PassedOn

(***************************************************************************)
(* C6.  Every run of the middleware ends in exactly one of two outcomes:   *)
(* next called once and nothing written, or the simulated response written *)
(* once and next not called; never both, never neither.  (The code has no  *)
(* throw and no call that can raise but the verifier's, which returns none *)
(* instead; a run that ended is a run that returned.)                      *)
(***************************************************************************)
C6_ExactlyOneOutcome ==
    Handled => (PassedOn /\ ~Simulated) \/ (Simulated /\ ~PassedOn)

\* A request identified through its credential was simulated: the verifier
\* was called, the response written once, next not called.
C6_Witness ==
    /\ Handled /\ req0.user = "" /\ res.verify = 1
    /\ Len(res.json) = 1 /\ res.next = 0

(***************************************************************************)
(* C7.  A request of the demo identity, with demo mode enabled, that is    *)
(* not simulated is passed to next unchanged but for the demo marker       *)
(* isDemo = true and user = the demo identity; nothing is written.         *)
(***************************************************************************)
C7_MarkedPassThrough ==
    (Handled /\ enabled /\ DemoCaller(req0) /\ RouteOf(req0) \notin simulatedActions)
    => PassedOn /\ req = Marked(req0)

\* GET /api/players of a demo caller identified by its credential.
C7_Witness ==
    /\ Handled /\ enabled
    /\ req0.user = Undefined /\ req0.headers = Hdr(BearerPrefix, <<"tok.demo">>)
    /\ req0.path = <<"api","players">> /\ req0.method = "GET"
    /\ PassedOn /\ req.isDemo = TRUE /\ req.user = DEMO_USERNAME


Answered == rr # Undefined

IsLiteral(template) == \A k \in DOMAIN template : template[k] \notin ParamSegments

NRules == Len(rules)

RuleRegex(i) ==
    IF i <= NRules THEN RegexPattern(rules[i].path) ELSE FALLBACK_PREDICATES[i - NRules].re

RuleHasMethod(i, method) ==
    IF i <= NRules THEN method \in DOMAIN rules[i].methods
    ELSE FALLBACK_PREDICATES[i - NRules].method = method

RuleAction(i, method) ==
    IF i <= NRules THEN rules[i].methods[method] ELSE FALLBACK_PREDICATES[i - NRules].action

IsExact(i, path) == i <= NRules /\ rules[i].path = path

WildCount(i) == Cardinality({k \in DOMAIN RuleRegex(i) : RuleRegex(i)[k] = Wild})

\* The rules that match (path, method), exactly or through their pattern.
Matching(path, method) ==
    {i \in 1..(NRules + Len(FALLBACK_PREDICATES)) :
        /\ RuleHasMethod(i, method)
        /\ IsExact(i, path) \/ RegexTest(RuleRegex(i), path)}

\* Precedence as claimed: exact, then fewer wildcards, then declaration order.
BySpecificity(i, j, path) ==
    \/ IsExact(i, path) /\ ~IsExact(j, path)
    \/ /\ IsExact(i, path) = IsExact(j, path)
       /\ \/ WildCount(i) < WildCount(j)
          \/ WildCount(i) = WildCount(j) /\ i < j

\* Precedence by declaration: exact, then declaration order.
ByDeclaration(i, j, path) ==
    \/ IsExact(i, path) /\ ~IsExact(j, path)
    \/ IsExact(i, path) = IsExact(j, path) /\ i < j

Winner(Before(_, _, _), path, method) ==
    LET m == Matching(path, method) IN
    IF m = {} THEN Null
    ELSE RuleAction(CHOOSE i \in m : \A j \in m \ {i} : Before(i, j, path), method)

(***************************************************************************)
(* C9.  For every literal rule (path, method, action) of the table,        *)
(* resolving the rule's own path and method gives the rule's action,       *)
(* whatever pattern rules are declared before or after it.                 *)
(***************************************************************************)
C9_LiteralRuleResolves ==
    Answered =>
        \A i \in DOMAIN rules :
            ( /\ IsLiteral(rules[i].path)
              /\ rules[i].path = rq.path
              /\ rq.method \in DOMAIN rules[i].methods )
            => rr = rules[i].methods[rq.method]

\* POST /api/players resolved to players.kick although the pattern rule
\* /api/:res, declared first, matches it with another action.
C9_Witness ==
    /\ Answered
    /\ rules[1] = PR_res
    /\ rq = [path |-> <<"api","players">>, method |-> "POST"]
    /\ rr = "players.kick"

PlayerPath(path) == Len(path) >= 4 /\ path[1] = "api" /\ path[2] = "players"

C11_ParamSegment ==
    (Answered /\ PlayerPath(rq.path) /\ rq.path[Len(rq.path)] \in {"kick", "ban"}) =>
        LET path == rq.path
            last == path[Len(path)]
        IN  /\ (Len(path) = 4 /\ path[3] # "" /\ last = "kick" /\ rq.method = "POST")
                    => rr = "players.kick"
            /\ (Len(path) = 4 /\ path[3] # "" /\ last = "ban" /\ rq.method = "DELETE")
                    => rr = "players.unban"
            /\ (Len(path) = 4 /\ path[3] = "") => rr = Null
            /\ Len(path) = 5 => rr = Null

C11_Witness ==
    /\ Answered
    /\ rq = [path |-> <<"api", "players", "alice", "ban">>, method |-> "DELETE"]
    /\ rr = "players.unban"

(***************************************************************************)
(* C18: extractUserFromToken always returns.  With no identity attached    *)
(* and demo mode enabled, a request whose Authorization header is missing  *)
(* or does not start with "Bearer " gets none and the verifier is not      *)
(* called; a bearer token the verifier rejects, or whose username is       *)
(* empty, gets none after one call of the verifier; any other bearer token *)
(* gets the verified username.  Whenever the result is none the request is *)
(* passed on as it was received.                                           *)
(***************************************************************************)
BearerHeaders == {Hdr(BearerPrefix, t) : t \in Tokens}

VerifiedName(t) ==
    LET result == verifyToken(t, "access")
    IN IF result = << >> \/ result[1].username = "" THEN Null ELSE result[1].username

HeaderConsulted == Handled /\ enabled /\ req0.user \in {Undefined, ""}

C18_ResolveCallerTotal ==
    HeaderConsulted =>
        /\ res.caller \in {Null, DEMO_USERNAME, "admin"}
        /\ req0.headers \notin BearerHeaders => res.caller = Null /\ res.verify = 0
        /\ \A t \in Tokens :
              req0.headers = Hdr(BearerPrefix, t) =>
                  res.caller = VerifiedName(t) /\ res.verify = 1
        /\ res.caller = Null => PassedOn /\ req = req0

C18_Witness ==
    /\ HeaderConsulted
    /\ req0.headers = Hdr(BearerPrefix, <<"tok.anon">>)
    /\ res.caller = Null
    /\ res.verify = 1
    /\ PassedOn

(***************************************************************************)
(* C19: an identity attached to the request wins.  When req.user is set    *)
(* the Authorization header is not read (extractUserFromToken is not       *)
(* called, the verifier is not called) and the request is treated as demo  *)
(* exactly when req.user is the demo user, whatever token it carries; when *)
(* no identity is attached the header is read and the request is treated   *)
(* as demo exactly when the header yields the demo user.                   *)
(***************************************************************************)
TreatedAsDemo == "isDemo" \in DOMAIN req

C19_AttachedIdentityFirst ==
    (Handled /\ enabled) =>
        IF req0.user \notin {Undefined, ""}
        THEN /\ res.caller = Undefined
             /\ res.verify = 0
             /\ TreatedAsDemo <=> req0.user = DEMO_USERNAME
             /\ ~TreatedAsDemo => PassedOn /\ req = req0
        ELSE /\ res.caller # Undefined
             /\ TreatedAsDemo <=> res.caller = DEMO_USERNAME

C19_Witness ==
    /\ Handled
    /\ enabled
    /\ req0.user = "admin"
    /\ req0.headers = Hdr(BearerPrefix, <<"tok.demo">>)
    /\ ~TreatedAsDemo
    /\ res.verify = 0
    /\ PassedOn

(***************************************************************************)
(* C17: every response createSimulatedResponse builds has the simulated    *)
(* flag, set to true, and success set to true, whatever the action         *)
(* identifier, the custom message and the configuration.                   *)
(***************************************************************************)
Responded == sr # NoResponse

C17_AlwaysSuccess ==
    Responded =>
        /\ {"success", "simulated"} \subseteq DOMAIN sr[1]
        /\ sr[1].success = TRUE
        /\ sr[1].simulated = TRUE

C17_Witness ==
    /\ Responded
    /\ sq = [action |-> "plugins.reload", customMessage |-> Undefined]
    /\ sr[1].message = DefaultMessage
    /\ sr[1].success = TRUE

(***************************************************************************)
(* The session store and the reset state as a caller of the service sees   *)
(* them.                                                                   *)
(***************************************************************************)
Counted == op = "count"
ResetDone == op \in {"reset", "fire"}

\* active: now < expiresAt
Active(session) == now < session.expiresAt

(***************************************************************************)
(* C12: a session is active iff now < expiresAt.  When                     *)
(* getActiveDemoSessionCount returns, every session left in the store is   *)
(* active and the number returned is the number of active sessions; in     *)
(* particular a session whose expiresAt is the current instant is neither  *)
(* kept nor counted.  The sweep compares `expiresAt < now`, so a session   *)
(* queried at the very instant it expires is kept and counted:             *)
(* C12_ActiveIffBeforeExpiry is violated.                                  *)
(***************************************************************************)
C12_ActiveIffBeforeExpiry ==
    Counted =>
        /\ \A s \in sessions : Active(s)
        /\ count = Cardinality({s \in sessions : Active(s)})

(***************************************************************************)
(* C13: every stored session expires exactly 24 hours after its creation.  *)
(* A getActiveDemoSessionCount at the instant T of the login keeps and     *)
(* counts the session; one at T + 24h + 1s or later removes it.  (A reset  *)
(* in between empties the store, so the session is then not there to be    *)
(* counted or removed.)                                                    *)
(***************************************************************************)
DAY_MS == 24 * MS_PER_HOUR

C13_TtlIsOneDay ==
    /\ [](\A s \in sessions : s.expiresAt = s.createdAt + DAY_MS)
    /\ [][op' = "count" =>
            \A s \in sessions :
                /\ now = s.createdAt => s \in sessions' /\ count' >= 1
                /\ now >= s.createdAt + DAY_MS + MS_PER_SECOND => s \notin sessions']_vars

C13_Witness ==
    /\ Counted
    /\ now = DAY_MS + MS_PER_SECOND
    /\ removed >= 1
    /\ \E s \in sessions : s.createdAt = now

(***************************************************************************)
(* C14: performDemoReset, called directly or by a timer, leaves the store  *)
(* empty whatever it held, expired or not, and a                           *)
(* getActiveDemoSessionCount that comes right after it returns 0.          *)
(***************************************************************************)
C14_ResetClearsAll ==
    /\ [](ResetDone => sessions = {})
    /\ [][(ResetDone /\ op' = "count") => count' = 0 /\ sessions' = {}]_vars

C14_Witness ==
    /\ ResetDone
    /\ now = DAY_MS
    /\ removed = 2
    /\ sessions = {}

C16_ArmedExactlyOnce ==
    inits > 0 => Len(timers) = IF enabled THEN 1 ELSE 0

(***************************************************************************)
(* C20: once a timer is armed, each of its fires runs performDemoReset     *)
(* (the store is emptied, lastReset is the instant of the fire) and leaves *)
(* it armed, due again later; no timer is ever disarmed.  Under fairness   *)
(* the resets keep coming: for every instant of the grid at which a timer  *)
(* is due, the reset of that instant eventually happens, which removes     *)
(* every session stored by then and moves lastReset to that instant.  The  *)
(* clock of the model ends at the horizon MaxHalfDays, so "again and       *)
(* again" is checked for every due instant up to the horizon.              *)
(***************************************************************************)
Due(t) == \E i \in DOMAIN timers : timers[i].due = t

Fired(t) == op = "fire" /\ resetState.lastReset = t /\ sessions = {}

C20_TimerResetsForever ==
    /\ [][\A i \in DOMAIN timers :
            timers'[i] # timers[i] =>
                /\ sessions' = {}
                /\ resetState'.lastReset = now
                /\ timers'[i].due > now
                /\ timers'[i].period = timers[i].period]_vars
    /\ [][Len(timers') >= Len(timers)]_vars
    /\ \A t \in TimePoints : Due(t) ~> Fired(t)

C20_Witness ==
    /\ op = "fire"
    /\ now = DAY_MS
    /\ removed >= 1
    /\ resetState.lastReset = now
    /\ \E i \in DOMAIN timers :
          timers[i].period = HALF_DAY_MS /\ timers[i].due = now + HALF_DAY_MS

(***************************************************************************)
(* C25: the fallback predicates never diverge from the table.  Whenever a  *)
(* rule of the table matches the request, exactly or by its pattern, the   *)
(* answer is the action of a matching table rule, not one of a predicate.  *)
(* With the shipped table, for every predicate of the per-item shape       *)
(* (collection path, then one item segment) the answer for an item path    *)
(* and the predicate's method is the action the table has for the          *)
(* collection path and that method, whenever the table has one.            *)
(***************************************************************************)
TableMatching(path, method) == {i \in Matching(path, method) : i <= NRules}

\* The predicates `collection/[^/]+`: literal segments, then one item.
PerItem(f) ==
    /\ f.re[Len(f.re)] = Wild
    /\ \A k \in 1..(Len(f.re) - 1) : f.re[k] # Wild

Collection(f) == SubSeq(f.re, 1, Len(f.re) - 1)

C25_FallbackAgreesWithTable ==
    Answered =>
        /\ TableMatching(rq.path, rq.method) # {} =>
              rr \in {RuleAction(i, rq.method) : i \in TableMatching(rq.path, rq.method)}
        /\ rules = ROUTE_ACTION_MAP =>
              \A f \in Range(FALLBACK_PREDICATES) :
                  (PerItem(f) /\ RegexTest(f.re, rq.path) /\ rq.method = f.method) =>
                      \A e \in Range(ROUTE_ACTION_MAP) :
                          (e.path = Collection(f) /\ rq.method \in DOMAIN e.methods) =>
                              rr = e.methods[rq.method]

C25_Witness ==
    /\ Answered
    /\ rules = ROUTE_ACTION_MAP
    /\ rq = [path |-> <<"api", "management", "mods", "upload">>, method |-> "DELETE"]
    /\ rr = "mods.delete"

(***************************************************************************)
(* C26: a read request resolves to no action.  For every path and every    *)
(* method other than POST, PUT and DELETE, getRouteAction returns none.    *)
(***************************************************************************)
WriteMethods == {"POST", "PUT", "DELETE"}

C26_ReadsResolveToNone ==
    (Answered /\ rq.method \notin WriteMethods) => rr = Null

C26_Witness ==
    /\ Answered
    /\ rq = [path |-> <<"api", "players", "alice", "kick">>, method |-> "GET"]
    /\ rr = Null

(***************************************************************************)
(* C21: a session leaves the store only by the sweep of                    *)
(* getActiveDemoSessionCount or by a reset.  A step that removes a session *)
(* is a reset, or it is a count and the session's expiresAt does not lie   *)
(* in the future; logins and the passage of time remove nothing, so an     *)
(* expired session stays stored until the next count or reset.             *)
(***************************************************************************)
C21_RemovedOnlyBySweepOrReset ==
    [][\A s \in sessions :
          s \notin sessions' =>
              \/ op' \in {"reset", "fire"}
              \/ op' = "count" /\ ~(now < s.expiresAt)]_vars

C21_Witness ==
    /\ op = "other"
    /\ \E s \in sessions : s.expiresAt < now
    /\ \E s \in sessions : s.createdAt = now

(***************************************************************************)
(* C28: once initializeDemoReset has run, no reset happens before the      *)
(* nextReset that the reset state held just before it.  performDemoReset   *)
(* called directly resets at once and moves nextReset without moving the   *)
(* timer, which then fires before the published nextReset:                 *)
(* C28_NoResetBeforeNextReset is violated.                                 *)
(***************************************************************************)
C28_NoResetBeforeNextReset ==
    [][(inits > 0 /\ resetState.nextReset # NoDate /\ op' \in {"reset", "fire"})
           => now >= resetState.nextReset]_vars

(***************************************************************************)
(* C24: every login adds one new entry to the store and overwrites none,   *)
(* also when several logins fall into the same millisecond.  The session   *)
(* id is the millisecond and nine characters of Math.random(); two logins  *)
(* of the same millisecond that draw the same characters have the same id, *)
(* and the second replaces the entry of the first:                         *)
(* C24_LoginAddsOneEntry is violated.                                      *)
(***************************************************************************)
C24_LoginAddsOneEntry ==
    [][calls' = calls + 1 => Cardinality(sessions') = Cardinality(sessions) + 1]_vars

(***************************************************************************)
(* C27: a login that returns a response has its session in the store at    *)
(* the moment it returns.  The session is stored before the login waits    *)
(* for its token and a reset that runs meanwhile removes it, so the login  *)
(* returns with its session gone: C27_ReturnedLoginIsStored is violated.   *)
(***************************************************************************)
C27_ReturnedLoginIsStored ==
    (outcome # NoOutcome /\ outcome[1].returned) => outcome[1].stored

(***************************************************************************)
(* C22: handling a request leaves the session store and the reset state as *)
(* they were.  A step that changes the store is a login (one entry added,  *)
(* none removed), a count or a reset; a step that changes lastReset or     *)
(* nextReset is a call of initializeDemoReset or a reset.                  *)
(***************************************************************************)
MiddlewareStep == pc' # pc

LoginStep == sessions \subseteq sessions' /\ \A s \in sessions' \ sessions : s.createdAt = now

C22_MiddlewareLeavesStore ==
    [][/\ MiddlewareStep => sessions' = sessions /\ resetState' = resetState
       /\ sessions' # sessions => LoginStep \/ op' \in {"count", "reset", "fire"}
       /\ resetState' # resetState => inits' = inits + 1 \/ op' \in {"reset", "fire"}]_vars

C22_Witness ==
    /\ Handled
    /\ Simulated
    /\ resetState.lastReset # NoDate
    /\ \E s \in sessions : s.expiresAt < now
    /\ \E s \in sessions : now < s.expiresAt

(***************************************************************************)
(* C23: the outcome of demoMiddleware does not depend on the session       *)
(* store.  Whatever the store holds (nothing, expired sessions, active     *)
(* ones, nothing after a reset), the request is simulated exactly when     *)
(* demo mode is enabled, the caller is the demo user, the route resolves   *)
(* and the action is on the allow-list, and is passed on otherwise; the    *)
(* response is the one of the action.                                      *)
(***************************************************************************)
Intercepted(r) ==
    /\ enabled
    /\ DemoCaller(r)
    /\ RouteOf(r) # Null
    /\ RouteOf(r) \in simulatedActions

C23_OutcomeIgnoresStore ==
    Handled =>
        IF Intercepted(req0)
        THEN Simulated /\ res.json = << createSimulatedResponse(RouteOf(req0), Undefined) >>
        ELSE PassedOn

C23_Witness ==
    /\ Handled
    /\ Simulated
    /\ op = "reset"
    /\ removed >= 1
    /\ sessions = {}

(***************************************************************************)
(* C29: the frontend store asks the backend for the demo mode once: over   *)
(* any calls of checkDemoMode at most one request to /api/server/demo is   *)
(* issued.  `checked` is set only when a call ends, so a call that starts  *)
(* while an earlier one waits for its fetch finds checked = false and      *)
(* fetches again: C29_AtMostOneFetch is violated.                          *)
(***************************************************************************)
C29_AtMostOneFetch == fetches <= 1

====
